---- MODULE Spec2Model ----
(***************************************************************************)
(* Model of src/app.py: the column classification and cleaning pipeline    *)
(* (dates, numbers, sequential ids, dimensions) over one uploaded table,   *)
(* with the table of removed rows (df_removidas).                          *)
(*                                                                         *)
(* A step of the model is one iteration of one of the script's column      *)
(* loops.  pandas calls are modelled by what they return on the cell       *)
(* values the model enumerates; where the outcome depends on the pandas    *)
(* release (astype('int64') of NaT) both outcomes are kept.  An exception  *)
(* the script does not catch ends the run (pc = "crashed"):                *)
(*   IndexingError  line 67, a boolean mask over fewer rows than           *)
(*                  df_original has;                                       *)
(*   ValueError     line 76, astype('int64') of a column holding NaT;      *)
(*   TypeError      line 177, fillna("Outro") on an Int64 column that has  *)
(*                  a missing value.                                       *)
(***************************************************************************)
EXTENDS Integers, Sequences, FiniteSets, TLC

VARIABLES
    df_original,        \* row label -> (column name -> cell), never changed
    orig_cols,          \* df_original.columns
    df_tratado,         \* row label -> (column name -> cell), rows still present
    df_cols,            \* df_tratado.columns (ordered)
    dtype,              \* column name -> dtype of df_tratado[col]
    df_removidas,       \* the rows appended to df_removidas, in order
    forced_dims,        \* list of column names
    numeric_cols,       \* list of column names
    cols,               \* the list the current loop iterates over
    i,                  \* position of the current loop in cols
    pc,                 \* "datas", "numericas", "sequenciais", "dimensoes", "done", "crashed"
    msgs,               \* the st.write notices, in order
    erro                \* the uncaught exception that ended the run, or "" 

vars == <<df_original, orig_cols, df_tratado, df_cols, dtype, df_removidas,
          forced_dims, numeric_cols, cols, i, pc, msgs, erro>>

(***************************************************************************)
(* Bounds of the model.                                                    *)
(***************************************************************************)
MaxRows == 4

(***************************************************************************)
(* Program constants.                                                      *)
(***************************************************************************)
limiar_data == 50           \* 0.50, in hundredths
limiar_num == 50            \* 0.50, in hundredths
limite_chars == 12
date_metric_suffix == "_timestamp"
forced_tokens == <<"id", "key", "chave">>

MotivoData == "Data inválida - linha removida"
MotivoNumero == "Número inválido - linha removida"
MotivoNaoString == "Valor não string - linha removida"

(***************************************************************************)
(* Text.  TLC evaluates Len, \o and SubSeq on strings.                     *)
(***************************************************************************)
CharAt(s, p) == SubSeq(s, p, p)

UpperAlpha == "ABCDEFGHIJKLMNOPQRSTUVWXYZ"
LowerAlpha == "abcdefghijklmnopqrstuvwxyz"
Digits == "0123456789"

\* the position of the one-character string c in alphabet, 0 when absent
IndexIn(c, alphabet) ==
    IF \E p \in 1..Len(alphabet) : CharAt(alphabet, p) = c
    THEN CHOOSE p \in 1..Len(alphabet) : CharAt(alphabet, p) = c
    ELSE 0

LowerChar(c) ==
    IF IndexIn(c, UpperAlpha) > 0 THEN CharAt(LowerAlpha, IndexIn(c, UpperAlpha)) ELSE c

RECURSIVE Lower(_)
Lower(s) == IF s = "" THEN "" ELSE LowerChar(CharAt(s, 1)) \o Lower(SubSeq(s, 2, Len(s)))

Contains(s, k) ==
    \E p \in 1..(Len(s) - Len(k) + 1) : SubSeq(s, p, p + Len(k) - 1) = k

EndsWith(s, suf) ==
    Len(s) >= Len(suf) /\ SubSeq(s, Len(s) - Len(suf) + 1, Len(s)) = suf

IsSpace(c) == c \in {" ", "\t", "\n", "\r"}

RECURSIVE LStrip(_)
LStrip(s) ==
    IF s # "" /\ IsSpace(CharAt(s, 1)) THEN LStrip(SubSeq(s, 2, Len(s))) ELSE s

RECURSIVE RStrip(_)
RStrip(s) ==
    IF s # "" /\ IsSpace(CharAt(s, Len(s))) THEN RStrip(SubSeq(s, 1, Len(s) - 1)) ELSE s

Strip(s) == RStrip(LStrip(s))

IsDigit(c) == IndexIn(c, Digits) > 0
DigitVal(c) == IndexIn(c, Digits) - 1

AllDigits(s) == s # "" /\ \A p \in 1..Len(s) : IsDigit(CharAt(s, p))

RECURSIVE StrToNat(_)
StrToNat(s) ==
    IF s = "" THEN 0
    ELSE 10 * StrToNat(SubSeq(s, 1, Len(s) - 1)) + DigitVal(CharAt(s, Len(s)))

RECURSIVE NatToStr(_)
NatToStr(n) ==
    IF n < 10 THEN CharAt(Digits, n + 1)
    ELSE NatToStr(n \div 10) \o CharAt(Digits, (n % 10) + 1)

MotivoLongo == "Texto muito longo (> " \o NatToStr(limite_chars) \o " caracteres)"

(***************************************************************************)
(* Cells.  Every cell is a record of one shape:                            *)
(*   k = "na"    a missing value (NaN, NaT, <NA>)                          *)
(*   k = "str"   the text s                                                *)
(*   k = "ts"    a timestamp, g seconds after the epoch                    *)
(*   k = "num"   the number g * 10^9 + m / 1000                            *)
(*   k = "imin"  the int64 minimum, what NaT is when viewed as int64       *)
(*   k = "fmin"  the int64 minimum divided by 1e9, as a float              *)
(***************************************************************************)
NA == [k |-> "na", s |-> "", g |-> 0, m |-> 0]
Str(t) == [k |-> "str", s |-> t, g |-> 0, m |-> 0]
Ts(secs) == [k |-> "ts", s |-> "", g |-> secs, m |-> 0]
Num(giga, milli) == [k |-> "num", s |-> "", g |-> giga, m |-> milli]
IMin == [k |-> "imin", s |-> "", g |-> 0, m |-> 0]
FMin == [k |-> "fmin", s |-> "", g |-> 0, m |-> 0]

notna(c) == c.k # "na"
isna(c) == c.k = "na"

(***************************************************************************)
(* pd.to_datetime(..., errors='coerce') on one text value.  The texts the  *)
(* model enumerates are ISO calendar dates (YYYY-MM-DD), decimal numbers   *)
(* below 1000 and plain words; pandas parses the first and turns the       *)
(* others into NaT.                                                        *)
(***************************************************************************)
IsLeap(y) == (y % 4 = 0 /\ y % 100 # 0) \/ y % 400 = 0

DaysInMonth(y, mo) ==
    IF mo = 2 THEN (IF IsLeap(y) THEN 29 ELSE 28)
    ELSE IF mo \in {4, 6, 9, 11} THEN 30 ELSE 31

\* days from 1970-01-01 to y-mo-d, for y >= 1970
DaysFromCivil(y, mo, d) ==
    LET yy == IF mo <= 2 THEN y - 1 ELSE y
        era == yy \div 400
        yoe == yy - era * 400
        mp == IF mo > 2 THEN mo - 3 ELSE mo + 9
        doy == (153 * mp + 2) \div 5 + d - 1
        doe == yoe * 365 + yoe \div 4 - yoe \div 100 + doy
    IN  era * 146097 + doe - 719468

IsIsoDate(s) ==
    /\ Len(s) = 10
    /\ CharAt(s, 5) = "-" /\ CharAt(s, 8) = "-"
    /\ AllDigits(SubSeq(s, 1, 4)) /\ AllDigits(SubSeq(s, 6, 7)) /\ AllDigits(SubSeq(s, 9, 10))
    /\ LET y == StrToNat(SubSeq(s, 1, 4))
           mo == StrToNat(SubSeq(s, 6, 7))
           d == StrToNat(SubSeq(s, 9, 10))
       IN  y \in 1970..2037 /\ mo \in 1..12 /\ d \in 1..DaysInMonth(y, mo)

to_datetime(c) ==
    IF c.k = "str" /\ IsIsoDate(c.s)
    THEN Ts(86400 * DaysFromCivil(StrToNat(SubSeq(c.s, 1, 4)),
                                  StrToNat(SubSeq(c.s, 6, 7)),
                                  StrToNat(SubSeq(c.s, 9, 10))))
    ELSE IF c.k = "ts" THEN c
    ELSE NA

(***************************************************************************)
(* pd.to_numeric(..., errors='coerce') on one cell.  A text parses when it *)
(* is a decimal numeral (digits, optionally a point and up to three        *)
(* digits); a datetime64 value is viewed as its int64 nanosecond count,    *)
(* NaT included (the int64 minimum, which is not missing).                 *)
(***************************************************************************)
DotAt(s) == IF \E p \in 1..Len(s) : CharAt(s, p) = "." 
            THEN CHOOSE p \in 1..Len(s) : CharAt(s, p) = "." 
            ELSE 0

IsNumeral(s) ==
    IF DotAt(s) = 0 THEN AllDigits(s) /\ Len(s) <= 6
    ELSE /\ AllDigits(SubSeq(s, 1, DotAt(s) - 1)) /\ DotAt(s) <= 7
         /\ AllDigits(SubSeq(s, DotAt(s) + 1, Len(s)))
         /\ Len(s) - DotAt(s) <= 3

\* the value of a numeral, in thousandths
NumeralMilli(s) ==
    IF DotAt(s) = 0 THEN 1000 * StrToNat(s)
    ELSE LET frac == SubSeq(s, DotAt(s) + 1, Len(s))
             scale == IF Len(frac) = 1 THEN 100 ELSE IF Len(frac) = 2 THEN 10 ELSE 1
         IN  1000 * StrToNat(SubSeq(s, 1, DotAt(s) - 1)) + scale * StrToNat(frac)

to_numeric(c, dt) ==
    IF dt = "datetime64" THEN (IF c.k = "ts" THEN Num(c.g, 0) ELSE IMin)
    ELSE IF c.k = "str" /\ IsNumeral(c.s) THEN Num(0, NumeralMilli(c.s))
    ELSE IF c.k \in {"num", "imin", "fmin"} THEN c
    ELSE NA

\* x % 1 != 0
HasFraction(c) == c.k = "num" /\ c.m % 1000 # 0

\* Series.round(2): to the nearest hundredth, ties to the even one
Round2(c) ==
    IF c.k # "num" THEN c
    ELSE LET q == c.m \div 10
             r == c.m % 10
             up == r > 5 \/ (r = 5 /\ q % 2 = 1)
         IN  Num(c.g, 10 * (IF up THEN q + 1 ELSE q))

\* astype(int) of a number: the fraction is dropped (values are >= 0 here)
AsInt(c) == IF c.k = "num" THEN Num(c.g, 1000 * (c.m \div 1000)) ELSE c

\* str(valor) of a cell of a column being normalised
RenderFloat(c) ==
    LET whole == c.m \div 1000
        f == c.m % 1000
        fs == IF f = 0 THEN "0"
              ELSE IF f % 100 = 0 THEN NatToStr(f \div 100)
              ELSE IF f % 10 = 0 THEN (IF f < 100 THEN "0" ELSE "") \o NatToStr(f \div 10)
              ELSE (IF f < 10 THEN "00" ELSE IF f < 100 THEN "0" ELSE "") \o NatToStr(f)
    IN  NatToStr(whole) \o "." \o fs

str(c, dt) ==
    IF c.k = "str" THEN c.s
    ELSE IF c.k = "num" /\ dt = "float64" /\ c.g = 0 THEN RenderFloat(c)
    ELSE IF c.k = "num" /\ c.g = 0 THEN NatToStr(c.m \div 1000)
    ELSE IF c.k = "num" THEN NatToStr(c.g) \o "000000000"
    ELSE IF c.k = "na" THEN "nan"
    ELSE "-9223372036854775808"

(***************************************************************************)
(* Tables.  A row is a function from column names to cells; a table is a   *)
(* function from row labels (the RangeIndex of read_csv, here 1..n) to     *)
(* rows.  A row of df_removidas carries the row it was copied from (row),  *)
(* the three columns the script adds, and src, the label of the row it     *)
(* came from: concat(ignore_index=True) drops that label, src keeps it for *)
(* the properties and no action reads it.                                  *)
(***************************************************************************)
InSeq(x, sq) == \E p \in 1..Len(sq) : sq[p] = x

Index == DOMAIN df_tratado

RECURSIVE Ascending(_)
Ascending(S) ==
    IF S = {} THEN <<>>
    ELSE LET x == CHOOSE y \in S : \A z \in S : y <= z
         IN  <<x>> \o Ascending(S \ {x})

SetCol(tbl, col, vals) ==
    [r \in DOMAIN tbl |->
        [c \in (DOMAIN tbl[r]) \cup {col} |-> IF c = col THEN vals[r] ELSE tbl[r][c]]]

Restrict(tbl, keep) == [r \in keep |-> tbl[r]]

\* the slip of dropping the rows whose cell is missing (dropna on the column)
\* where the rows of the mask were meant
DropRowsNa(tbl, col, mask) == Restrict(tbl, {r \in DOMAIN tbl : notna(tbl[r][col])})

\* lines 71 and 122: df_tratado[~mask].copy()
DropRows(tbl, col, mask) == Restrict(tbl, (DOMAIN tbl) \ mask)

Removida(snapshot, motivo, col, valor, label) ==
    [row |-> snapshot, Motivo_Tratamento |-> motivo, Coluna_Alvo |-> col,
     Valor_Raw |-> valor, src |-> label]

Msg(kind, col, a, b) == [kind |-> kind, col |-> col, a |-> a, b |-> b]

\* line 35: the columns whose lowercased name contains "id", "key" or "chave"
ForcedByName(col) ==
    \E p \in 1..Len(forced_tokens) : Contains(Lower(col), forced_tokens[p])

RECURSIVE SelectForced(_)
SelectForced(names) ==
    IF names = <<>> THEN <<>>
    ELSE (IF ForcedByName(Head(names)) THEN <<Head(names)>> ELSE <<>>)
         \o SelectForced(Tail(names))

\* the slip of a strict comparison
AceitaStrict(num_sucesso, total_linhas, limiar) ==
    total_linhas > 0 /\ 100 * num_sucesso > limiar * total_linhas

\* lines 55 and 105: num_sucesso / total_linhas >= limiar; 0 / 0 is nan, and
\* nan >= limiar is False
Aceita(num_sucesso, total_linhas, limiar) ==
    total_linhas > 0 /\ 100 * num_sucesso >= limiar * total_linhas

Crash(e) == pc' = "crashed" /\ erro' = e

(***************************************************************************)
(* 1. Tratamento de Datas: one iteration of the loop of lines 43-81.       *)
(***************************************************************************)
\* line 60
MaskNat(tbl, col) ==
    {r \in DOMAIN tbl : isna(tbl[r][col]) /\ notna(df_original[r][col])}

\* line 76, one value: the epoch seconds of a timestamp; NaT, where astype
\* does not raise, is the int64 minimum
EpochSeconds(c) == IF c.k = "ts" THEN Num(0, 1000 * c.g) ELSE FMin

TratarData ==
    /\ pc = "datas"
    /\ i <= Len(cols)
    /\ LET col == cols[i] IN
       IF InSeq(col, forced_dims)
       THEN /\ msgs' = Append(msgs, Msg("forcada", col, 0, 0))
            /\ i' = i + 1
            /\ UNCHANGED <<df_original, orig_cols, df_tratado, df_cols, dtype,
                           df_removidas, forced_dims, numeric_cols, cols, pc, erro>>
       ELSE
       LET tentativa == [r \in Index |-> to_datetime(df_tratado[r][col])]
           num_sucesso == Cardinality({r \in Index : notna(tentativa[r])})
           total_linhas == Cardinality(Index)
       IN
       IF ~Aceita(num_sucesso, total_linhas, limiar_data)
       THEN /\ msgs' = Append(msgs, Msg("data_nao", col, num_sucesso, total_linhas))
            /\ i' = i + 1
            /\ UNCHANGED <<df_original, orig_cols, df_tratado, df_cols, dtype,
                           df_removidas, forced_dims, numeric_cols, cols, pc, erro>>
       ELSE
       LET df1 == SetCol(df_tratado, col, tentativa)
           dtype1 == [dtype EXCEPT ![col] = "datetime64"]
           mask_nat == MaskNat(df1, col)
           order == Ascending(mask_nat)
           failed_rows == [p \in 1..Len(order) |->
                             Removida(df1[order[p]], MotivoData, col,
                                      df_original[order[p]][col], order[p])]
           df2 == DropRows(df1, col, mask_nat)
           timestamp_col == col \o date_metric_suffix
           df3 == SetCol(df2, timestamp_col, [r \in DOMAIN df2 |-> EpochSeconds(df2[r][col])])
           tem_nat == \E r \in DOMAIN df2 : isna(df2[r][col])
       IN
       IF mask_nat # {} /\ Index # DOMAIN df_original
       THEN \* line 67: the boolean mask is indexed by the rows left, which no
            \* longer cover df_original: IndexingError
            /\ Crash("IndexingError")
            /\ df_tratado' = df1
            /\ dtype' = dtype1
            /\ UNCHANGED <<df_original, orig_cols, df_cols, df_removidas,
                           forced_dims, numeric_cols, cols, i, msgs>>
       ELSE
       \/ \* line 76 raises on NaT (a pandas whose astype refuses NaT)
          /\ tem_nat
          /\ Crash("ValueError")
          /\ df_tratado' = df2
          /\ dtype' = dtype1
          /\ df_removidas' = df_removidas \o failed_rows
          /\ UNCHANGED <<df_original, orig_cols, df_cols, forced_dims,
                         numeric_cols, cols, i, msgs>>
       \/ /\ df_tratado' = df3
          /\ dtype' = [c \in (DOMAIN dtype) \cup {timestamp_col} |->
                          IF c = timestamp_col THEN "float64" ELSE dtype1[c]]
          /\ df_cols' = IF InSeq(timestamp_col, df_cols) THEN df_cols
                        ELSE Append(df_cols, timestamp_col)
          /\ df_removidas' = df_removidas \o failed_rows
          /\ msgs' = Append(msgs, Msg("data_ok", col, Cardinality(mask_nat), 0))
          /\ i' = i + 1
          /\ UNCHANGED <<df_original, orig_cols, forced_dims, numeric_cols,
                         cols, pc, erro>>

\* lines 86-89: the numeric loop starts over the columns the table now has
IniciarNumericas ==
    /\ pc = "datas"
    /\ i > Len(cols)
    /\ pc' = "numericas"
    /\ cols' = df_cols
    /\ i' = 1
    /\ numeric_cols' = <<>>
    /\ UNCHANGED <<df_original, orig_cols, df_tratado, df_cols, dtype,
                   df_removidas, forced_dims, msgs, erro>>

(***************************************************************************)
(* 2. Tratamento de Colunas Numéricas: one iteration of the loop of lines  *)
(* 91-137.                                                                 *)
(***************************************************************************)
\* lines 107-111
MaskNan(tentativa_num, col) ==
    IF InSeq(col, orig_cols)
    THEN {r \in DOMAIN tentativa_num :
             isna(tentativa_num[r]) /\ notna(df_original[r][col])}
    ELSE {}

TratarNumerica ==
    /\ pc = "numericas"
    /\ i <= Len(cols)
    /\ LET col == cols[i] IN
       IF InSeq(col, forced_dims)
       THEN /\ msgs' = Append(msgs, Msg("forcada", col, 0, 0))
            /\ i' = i + 1
            /\ UNCHANGED <<df_original, orig_cols, df_tratado, df_cols, dtype,
                           df_removidas, forced_dims, numeric_cols, cols, pc, erro>>
       ELSE IF EndsWith(col, date_metric_suffix)
       THEN /\ i' = i + 1
            /\ UNCHANGED <<df_original, orig_cols, df_tratado, df_cols, dtype,
                           df_removidas, forced_dims, numeric_cols, cols, pc,
                           msgs, erro>>
       ELSE
       LET tentativa_num == [r \in Index |-> to_numeric(df_tratado[r][col], dtype[col])]
           num_sucesso == Cardinality({r \in Index : notna(tentativa_num[r])})
           total_linhas == Cardinality(Index)
       IN
       IF ~Aceita(num_sucesso, total_linhas, limiar_num)
       THEN /\ msgs' = Append(msgs, Msg("num_nao", col, num_sucesso, total_linhas))
            /\ i' = i + 1
            /\ UNCHANGED <<df_original, orig_cols, df_tratado, df_cols, dtype,
                           df_removidas, forced_dims, numeric_cols, cols, pc, erro>>
       ELSE
       LET mask_nan == MaskNan(tentativa_num, col)
           order == Ascending(mask_nan)
           failed_rows == [p \in 1..Len(order) |->
                             Removida(df_tratado[order[p]], MotivoNumero, col,
                                      df_original[order[p]][col], order[p])]
           df1 == DropRows(df_tratado, col, mask_nan)
           pruned == [r \in DOMAIN df1 |-> tentativa_num[r]]
           tem_float == \E r \in DOMAIN df1 : HasFraction(pruned[r])
           final == IF tem_float THEN [r \in DOMAIN df1 |-> Round2(pruned[r])]
                    ELSE pruned
       IN
          /\ df_tratado' = SetCol(df1, col, final)
          /\ dtype' = [dtype EXCEPT ![col] = IF tem_float THEN "float64" ELSE "Int64"]
          /\ df_removidas' = df_removidas \o failed_rows
          /\ numeric_cols' = Append(numeric_cols, col)
          /\ msgs' = Append(msgs, Msg(IF tem_float THEN "num_float" ELSE "num_int",
                                      col, Cardinality(mask_nan), 0))
          /\ i' = i + 1
          /\ UNCHANGED <<df_original, orig_cols, df_cols, forced_dims, cols, pc, erro>>

(***************************************************************************)
(* 3. Identificação de Colunas Numéricas Sequenciais, lines 141-157, and   *)
(* the start of the dimension loop, lines 162-163.  astype(int) raises on  *)
(* none of the values a numeric column holds after dropna(), so the except *)
(* branch is never taken.                                                  *)
(***************************************************************************)
\* lines 145-147: sorted(unique(astype(int))) == list(range(len(unique)))
IsSequential(values) ==
    LET unicos == {AsInt(v) : v \in values}
    IN  unicos = {Num(0, 1000 * j) : j \in 0..(Cardinality(unicos) - 1)}

\* line 143: df_tratado[col].dropna()
Serie(col) == {df_tratado[r][col] : r \in {x \in Index : notna(df_tratado[x][col])}}

RECURSIVE SequentialIdCols(_)
SequentialIdCols(names) ==
    IF names = <<>> THEN <<>>
    ELSE (IF IsSequential(Serie(Head(names))) THEN <<Head(names)>> ELSE <<>>)
         \o SequentialIdCols(Tail(names))

RECURSIVE AppendNew(_, _)
AppendNew(list, more) ==
    IF more = <<>> THEN list
    ELSE AppendNew(IF InSeq(Head(more), list) THEN list ELSE Append(list, Head(more)),
                   Tail(more))

RECURSIVE MsgsFor(_, _)
MsgsFor(kind, names) ==
    IF names = <<>> THEN <<>>
    ELSE <<Msg(kind, Head(names), 0, 0)>> \o MsgsFor(kind, Tail(names))

IdentificarSequenciais ==
    /\ pc = "numericas"
    /\ i > Len(cols)
    /\ LET sequential_id_cols == SequentialIdCols(numeric_cols) IN
          /\ forced_dims' = AppendNew(forced_dims, sequential_id_cols)
          /\ msgs' = msgs \o MsgsFor("sequencial", sequential_id_cols)
    /\ pc' = "dimensoes"
    /\ cols' = df_cols
    /\ i' = 1
    /\ UNCHANGED <<df_original, orig_cols, df_tratado, df_cols, dtype,
                   df_removidas, numeric_cols, erro>>

(***************************************************************************)
(* 4. Tratamento de Dimensões: one iteration of the loop of lines 165-215. *)
(* str(valor) raises for no value a column holds, so the branch of lines   *)
(* 183-195 ("Valor não string") is never taken.  A nullable-integer column *)
(* refuses the text "Outro": fillna of line 177 raises TypeError when the  *)
(* column has a missing value.                                             *)
(***************************************************************************)
\* lines 167-171
SkipDimension(col) ==
    \/ dtype[col] = "datetime64"
    \/ (InSeq(col, numeric_cols) /\ ~InSeq(col, forced_dims))
    \/ EndsWith(col, date_metric_suffix)

\* the slip of counting a text of exactly limite_chars as too long
TooLongGe(s) == Len(s) >= limite_chars

\* line 197
TooLong(s) == Len(s) > limite_chars

\* lines 176-177
FillOutro(c) == IF isna(c) THEN Str("Outro") ELSE c

\* lines 199-210: the row as df_removidas receives it
LongSnapshot(row, col) == [row EXCEPT ![col] = Str("Outro")]

TratarDimensao ==
    /\ pc = "dimensoes"
    /\ i <= Len(cols)
    /\ LET col == cols[i] IN
       IF SkipDimension(col)
       THEN /\ i' = i + 1
            /\ UNCHANGED <<df_original, orig_cols, df_tratado, df_cols, dtype,
                           df_removidas, forced_dims, numeric_cols, cols, pc,
                           msgs, erro>>
       ELSE IF dtype[col] = "Int64" /\ \E r \in Index : isna(df_tratado[r][col])
       THEN /\ Crash("TypeError")
            /\ UNCHANGED <<df_original, orig_cols, df_tratado, df_cols, dtype,
                           df_removidas, forced_dims, numeric_cols, cols, i, msgs>>
       ELSE
       LET col_series == [r \in Index |-> FillOutro(df_tratado[r][col])]
           longos == {r \in Index : TooLong(Strip(str(col_series[r], dtype[col])))}
           order == Ascending(longos)
           entradas == [p \in 1..Len(order) |->
                          Removida(LongSnapshot(df_tratado[order[p]], col), MotivoLongo,
                                   col, col_series[order[p]], order[p])]
           final == [r \in Index |->
                        IF r \in longos THEN Str("Outro") ELSE FillOutro(df_tratado[r][col])]
           mudou == \E r \in Index : final[r] # df_tratado[r][col]
       IN
          /\ df_tratado' = SetCol(df_tratado, col, final)
          /\ dtype' = [dtype EXCEPT ![col] = IF mudou THEN "object" ELSE @]
          /\ df_removidas' = df_removidas \o entradas
          /\ msgs' = Append(msgs, Msg("dimensao", col, 0, 0))
          /\ i' = i + 1
          /\ UNCHANGED <<df_original, orig_cols, df_cols, forced_dims,
                         numeric_cols, cols, pc, erro>>

\* lines 218-222: the two tables are shown
Exibir ==
    /\ pc = "dimensoes"
    /\ i > Len(cols)
    /\ pc' = "done"
    /\ UNCHANGED <<df_original, orig_cols, df_tratado, df_cols, dtype,
                   df_removidas, forced_dims, numeric_cols, cols, i, msgs, erro>>

(***************************************************************************)
(* The uploaded tables the model enumerates.  read_csv(dtype=str) gives    *)
(* text or a missing value in every cell.  A header never holds both a     *)
(* column and that column's name followed by "_timestamp".  A table of one *)
(* column has up to MaxRows rows, a table of two columns one row fewer.    *)
(***************************************************************************)
Date0 == Str("1970-01-01")
Date1 == Str("1970-01-02")
Word == Str("abc")
Text12 == Str("aaaaaaaaaaaa")
Text13 == Str("aaaaaaaaaaaaa")
Padded12 == Str("  aaaaaaaaaaaa ")

Uploads ==
    { [names |-> <<"data">>,
       pal |-> [data |-> {NA, Date0, Date1, Word}]],
      [names |-> <<"valor">>,
       pal |-> [valor |-> {NA, Str("0"), Str("1"), Str("2"), Word}]],
      [names |-> <<"preco">>,
       pal |-> [preco |-> {NA, Str("0.25"), Str("1.5"), Str("2.75"), Str("1")}]],
      [names |-> <<"nome">>,
       pal |-> [nome |-> {NA, Word, Text12, Text13, Padded12}]],
      [names |-> <<"user_id">>,
       pal |-> [user_id |-> {NA, Date1, Str("1"), Text13}]],
      [names |-> <<"CHAVE">>,
       pal |-> [CHAVE |-> {Date0, Str("1.5"), Word}]],
      [names |-> <<"data", "valor">>,
       pal |-> [data |-> {Date1, Word}, valor |-> {NA, Str("1"), Word}]],
      [names |-> <<"data", "dt2">>,
       pal |-> [data |-> {Date0, Word}, dt2 |-> {NA, Date1, Word}]],
      [names |-> <<"valor", "nome">>,
       pal |-> [valor |-> {Str("1"), Word}, nome |-> {Word, Text13}]],
      [names |-> <<"monkey", "data">>,
       pal |-> [monkey |-> {Str("2"), Text13}, data |-> {Date1, Word}]],
      [names |-> <<"paid_timestamp">>,
       pal |-> [paid_timestamp |-> {NA, Date1, Str("1"), Text13}]],
      [names |-> <<"ts_timestamp">>,
       pal |-> [ts_timestamp |-> {NA, Date1, Str("1"), Text13}]] }

RowsOf(up) ==
    LET names == {up.names[p] : p \in 1..Len(up.names)}
        cells == UNION {up.pal[c] : c \in names}
    IN  {row \in [names -> cells] : \A c \in names : row[c] \in up.pal[c]}

\* lines 18-35: the table is read, copied, and the forced dimensions are
\* taken from the column names
Init ==
    \E up \in Uploads, n \in 0..MaxRows :
        \E tbl \in [1..n -> RowsOf(up)] :
            /\ n + Len(up.names) <= MaxRows + 1
            /\ df_original = tbl
            /\ orig_cols = up.names
            /\ df_tratado = tbl
            /\ df_cols = up.names
            /\ dtype = [c \in {up.names[p] : p \in 1..Len(up.names)} |-> "object"]
            /\ df_removidas = <<>>
            /\ cols = up.names
            /\ forced_dims = SelectForced(up.names)
            /\ numeric_cols = <<>>
            /\ i = 1
            /\ pc = "datas"
            /\ msgs = <<>>
            /\ erro = ""

Next ==
    \/ TratarData
    \/ IniciarNumericas
    \/ TratarNumerica
    \/ IdentificarSequenciais
    \/ TratarDimensao
    \/ Exibir

Spec == Init /\ [][Next]_vars

(***************************************************************************)
(* Properties.                                                             *)
(***************************************************************************)
Rows == DOMAIN df_original
Log == 1..Len(df_removidas)
EntriesOf(r) == {p \in Log : df_removidas[p].src = r}
RemovalReasons == {MotivoData, MotivoNumero, MotivoNaoString}
IsRemoval(p) == df_removidas[p].Motivo_Tratamento \in RemovalReasons
IsLongo(p) == df_removidas[p].Motivo_Tratamento = MotivoLongo
Said(kind, col) == \E p \in 1..Len(msgs) : msgs[p].kind = kind /\ msgs[p].col = col
InputCols == {orig_cols[p] : p \in 1..Len(orig_cols)}

\* C1 (completeness): when the run has finished, every row of the uploaded
\* table is still in df_tratado or has an entry in df_removidas, and a row
\* that is in both has only "Texto muito longo" entries.
C1_Completeness ==
    pc = "done" =>
        \A r \in Rows :
            /\ r \in Index \/ EntriesOf(r) # {}
            /\ (r \in Index /\ EntriesOf(r) # {}) => \A p \in EntriesOf(r) : IsLongo(p)

\* a finished run that removed a row and also kept a row with an overlong text
C1_Witness ==
    /\ pc = "done"
    /\ \E r \in Rows : r \notin Index /\ EntriesOf(r) # {}
    /\ \E r \in Rows : r \in Index /\ EntriesOf(r) # {}

\* C6 (remove and quarantine): a row with a removal entry in df_removidas is
\* absent from df_tratado in the state that entry first appears in and in
\* every later one, and no row has two removal entries.
C6_RemovedStaysOut ==
    \A p \in Log :
        IsRemoval(p) =>
            /\ df_removidas[p].src \notin Index
            /\ \A q \in Log : (IsRemoval(q) /\ df_removidas[q].src = df_removidas[p].src) => q = p

\* rows were removed by the date stage and by the numeric stage
C6_Witness ==
    /\ \E p \in Log : df_removidas[p].Motivo_Tratamento = MotivoData
    /\ \E p \in Log : df_removidas[p].Motivo_Tratamento = MotivoNumero

\* the current step is an iteration of the date or numeric loop on a column
\* that loop considers
C3_Considered ==
    /\ pc \in {"datas", "numericas"} /\ i <= Len(cols)
    /\ ~InSeq(cols[i], forced_dims)
    /\ pc = "numericas" => ~EndsWith(cols[i], date_metric_suffix)

\* how many of the rows df_tratado has now parse in the column of this step
C3_Successes ==
    IF pc = "datas"
    THEN Cardinality({r \in Index : to_datetime(df_tratado[r][cols[i]]).k = "ts"})
    ELSE Cardinality({r \in Index : to_numeric(df_tratado[r][cols[i]], dtype[cols[i]]).k # "na"})

\* this step wrote the notice of a rejection
C3_Rejected ==
    /\ Len(msgs') = Len(msgs) + 1
    /\ msgs'[Len(msgs')].kind \in {"data_nao", "num_nao"}

\* C3 (threshold): a step of the date loop or of the numeric loop on a column
\* it considers accepts the column exactly when at least half of the rows
\* df_tratado has at that moment parse (an empty table accepts nothing), and
\* a rejection leaves the table, its dtypes and df_removidas as they were.
C3_Threshold ==
    [][C3_Considered =>
         /\ ~C3_Rejected <=> (Cardinality(Index) > 0 /\ 2 * C3_Successes >= Cardinality(Index))
         /\ C3_Rejected => /\ df_tratado' = df_tratado
                           /\ dtype' = dtype
                           /\ df_removidas' = df_removidas
                           /\ df_cols' = df_cols]_vars

\* a column accepted with exactly half of the current rows parsing, the
\* current rows being fewer than the rows uploaded
C3_Witness ==
    /\ msgs # <<>>
    /\ msgs[Len(msgs)].kind \in {"data_ok", "num_int", "num_float"}
    /\ msgs[Len(msgs)].a > 0
    /\ msgs[Len(msgs)].a = Cardinality(Index)
    /\ 2 * Cardinality(Index) < Cardinality(Rows)

\* the entries this step appends for row r
C5_NewEntries(r) ==
    {p \in (Len(df_removidas) + 1)..Len(df_removidas') : df_removidas'[p].src = r}

\* C5 (overlong text): a step of the dimension loop that normalises a column
\* replaces by "Outro" every cell whose trimmed text is longer than 12
\* characters, keeps the row, and appends exactly one "Texto muito longo"
\* entry for it, with the column as target and the original value as raw
\* value; a value of 12 characters or fewer stays as it is, with no entry.
C5_Overlong ==
    [][(pc = "dimensoes" /\ i <= Len(cols) /\ Len(msgs') = Len(msgs) + 1) =>
         \A r \in Index :
            LET col == cols[i]
                old == df_tratado[r][col]
            IN  notna(old) =>
                  IF Len(Strip(str(old, dtype[col]))) > 12
                  THEN /\ r \in DOMAIN df_tratado'
                       /\ df_tratado'[r][col] = Str("Outro")
                       /\ Cardinality(C5_NewEntries(r)) = 1
                       /\ \A p \in C5_NewEntries(r) :
                             /\ df_removidas'[p].Motivo_Tratamento
                                   = "Texto muito longo (> 12 caracteres)"
                             /\ df_removidas'[p].Coluna_Alvo = col
                             /\ df_removidas'[p].Valor_Raw = old
                  ELSE /\ r \in DOMAIN df_tratado'
                       /\ df_tratado'[r][col] = old
                       /\ C5_NewEntries(r) = {}]_vars

\* a normalised column where a 13-character text was replaced and logged and
\* a text of 12 characters between blanks was kept
C5_Witness ==
    /\ Said("dimensao", "nome")
    /\ \E p \in Log : IsLongo(p) /\ df_removidas[p].Valor_Raw = Text13
    /\ \E r \in Index : df_tratado[r]["nome"] = Padded12

\* the column was left alone by the date stage and the numeric stage
C2_Locked(col) ==
    /\ ~Said("data_ok", col) /\ ~Said("num_int", col) /\ ~Said("num_float", col)
    /\ ~InSeq(col, numeric_cols)
    /\ dtype[col] \notin {"datetime64", "Int64", "float64"}
    /\ \A p \in Log : IsRemoval(p) => df_removidas[p].Coluna_Alvo # col
    /\ ~InSeq(col \o "_timestamp", df_cols)

\* C2 (forced dimension precedence): a column whose lowercased name contains
\* "id", "key" or "chave" is never accepted as date or number, is never the
\* target of a removal, gets no "_timestamp" companion, and when the run has
\* finished it has been normalised as a dimension.
C2_ForcedPrecedence ==
    \A col \in InputCols :
        ForcedByName(col) =>
            /\ C2_Locked(col)
            /\ pc = "done" => Said("dimensao", col)

\* what does hold of C2: the lock itself, for every such column, and the
\* normalisation for those whose name does not end in "_timestamp"
C2_ExceptSuffixed ==
    \A col \in InputCols :
        ForcedByName(col) =>
            /\ C2_Locked(col)
            /\ (pc = "done" /\ ~EndsWith(col, "_timestamp")) => Said("dimensao", col)

\* the roles a column of the final table can be read to have
C7_IsTemporal(col) == dtype[col] = "datetime64"
C7_IsNumeric(col) == InSeq(col, numeric_cols) /\ ~InSeq(col, forced_dims)

\* C7 (every column has a role): when the run has finished, every column of
\* the upload is a date column, a numeric column, or was normalised as a
\* dimension; one that is neither date nor numeric holds no missing cell and
\* no text longer than 12 characters.
C7_EveryColumnHasRole ==
    pc = "done" =>
        \A col \in InputCols :
            \/ C7_IsTemporal(col)
            \/ C7_IsNumeric(col)
            \/ /\ Said("dimensao", col)
               /\ \A r \in Index :
                     /\ notna(df_tratado[r][col])
                     /\ df_tratado[r][col].k = "str" => Len(Strip(df_tratado[r][col].s)) <= 12

\* what does hold of C7: the same, for the columns whose name does not end
\* in "_timestamp"
C7_ExceptSuffixed ==
    pc = "done" =>
        \A col \in InputCols :
            \/ EndsWith(col, "_timestamp")
            \/ C7_IsTemporal(col)
            \/ C7_IsNumeric(col)
            \/ /\ Said("dimensao", col)
               /\ \A r \in Index :
                     /\ notna(df_tratado[r][col])
                     /\ df_tratado[r][col].k = "str" => Len(Strip(df_tratado[r][col].s)) <= 12

\* C8 (non-integral values are not sequential): a numeric column that holds
\* a value with a fractional part is not added to forced_dims by the
\* sequential-id stage.
C8_FractionsNotSequential ==
    \A col \in InputCols :
        Said("num_float", col) => ~Said("sequencial", col) /\ ~InSeq(col, forced_dims)

\* the distinct non-missing values of a column, and whether they are 0..k-1
C4_Distinct(col) == {df_tratado[r][col] : r \in {x \in Index : notna(df_tratado[x][col])}}

C4_Dense(col) ==
    C4_Distinct(col) = {Num(0, 1000 * j) : j \in 0..(Cardinality(C4_Distinct(col)) - 1)}

\* C4 (sequential reclassification): right after the sequential-id stage, a
\* numeric column is in forced_dims exactly when its distinct non-missing
\* values are 0, 1, ..., k-1; when the run has finished, those columns and
\* no other numeric column were normalised as dimensions.
C4_Sequential ==
    \A p \in 1..Len(numeric_cols) :
        LET col == numeric_cols[p] IN
            /\ (pc = "dimensoes" /\ i = 1) => (InSeq(col, forced_dims) <=> C4_Dense(col))
            /\ pc = "done" => (Said("dimensao", col) <=> Said("sequencial", col))

\* what does hold of C4: the same, for the numeric columns kept as integers
C4_IntegerColumns ==
    \A p \in 1..Len(numeric_cols) :
        LET col == numeric_cols[p] IN
            Said("num_int", col) =>
                /\ (pc = "dimensoes" /\ i = 1) => (InSeq(col, forced_dims) <=> C4_Dense(col))
                /\ pc = "done" => (Said("dimensao", col) <=> Said("sequencial", col))

\* C9 (a role is resolved once): a column accepted as date is not parsed as
\* a number, is not in numeric_cols, and when the run has finished it still
\* holds timestamps.
C9_TemporalStaysTemporal ==
    \A col \in InputCols :
        Said("data_ok", col) =>
            /\ ~Said("num_int", col) /\ ~Said("num_float", col) /\ ~Said("num_nao", col)
            /\ ~InSeq(col, numeric_cols)
            /\ pc = "done" =>
                  /\ dtype[col] = "datetime64"
                  /\ \A r \in Index : df_tratado[r][col].k \in {"ts", "na"}

\* C10 (pre-truncation snapshot): in a "Texto muito longo" entry the row
\* snapshot holds, in the target column, the original text (the raw value).
C10_SnapshotBeforeOverwrite ==
    \A p \in Log :
        IsLongo(p) =>
            df_removidas[p].row[df_removidas[p].Coluna_Alvo] = df_removidas[p].Valor_Raw

====
